---- MODULE Spec2Model ----
(***************************************************************************)
(* pynwjs: the Session lifecycle (NWJS in src/src/pynwjs/nwjs.py), the     *)
(* module-level API (src/src/pynwjs/__init__.py), the reader thread and    *)
(* the external nwjs process, as threads that interleave statement by      *)
(* statement.                                                              *)
(***************************************************************************)
EXTENDS Integers, Sequences, FiniteSets, TLC

\* ---------------------------------------------------------------- bounds
MaxObj == 2         \* NWJS objects that exist at the same time
MaxOpens == 2       \* NWJS objects created in a run
MaxFrames == 1      \* lines the external processes write in a run
MaxRegs == 1        \* registrations with on() in a run
MaxEmits == 1       \* frames emit() writes in a run
ReOpens == 3        \* NWJS objects created in a run of SpecReopen
DispOpens == 1      \* NWJS objects created in a run of SpecDisp
DispFrames == 2     \* lines the external process writes in a run of SpecDisp
DispRegs == 2       \* registrations with on() in a run of SpecDisp
FairOpens == 1      \* NWJS objects created in a run of FairSpec
ErrOpens == 1       \* NWJS objects created in a run of SpecErr
ErrFrames == 2      \* lines the external process writes in a run of SpecErr
ErrRegs == 2        \* registrations in a run of SpecErr
KillOpens == 1      \* NWJS objects created in a run of KillSpec
ReplyOpens == 1     \* NWJS objects created in a run of SpecReply
ReplyFrames == 2    \* lines the external process writes in a run of SpecReply
ReplyRegs == 1      \* registrations in a run of SpecReply
RegOpens == 1       \* NWJS objects created in a run of SpecReg
RegFrames == 1      \* lines the external process writes in a run of SpecReg
RegRegs == 3        \* registrations and clearings in a run of SpecReg

\* ---------------------------------------------------------------- values
None == 0
Host == 0
Obj == 1..MaxObj
Threads == {Host} \cup Obj

\* event names: two custom events, and the registry key of the listener for the
\* HTML event "a" of the element with id "i"
Events == {"a", "b", "__event__.i.a"}
ElementIds == {"i"}
HtmlEvents == {"a"}
\* the functions of the registry API
RegistryOps == {"on", "callback", "add_event_listener", "event_listener", "clear", "clear_all"}
\* the characters of each name
Chars(n) ==
    CASE n = "a" -> <<"a">>
      [] n = "b" -> <<"b">>
      [] n = "i" -> <<"i">>
      [] n = "__event__.i.a" -> <<"_", "_", "e", "v", "e", "n", "t", "_", "_", ".", "i", ".", "a">>
\* str.startswith
StartsWith(n, prefix) ==
    Len(Chars(n)) >= Len(prefix) /\ SubSeq(Chars(n), 1, Len(prefix)) = prefix
\* the reserved prefix of event names
Sentinel == <<"_", "_">>
\* '__event__.%s.%s' % (id, event)
ListenerKey(id, ev) ==
    CHOOSE n \in Events :
        Chars(n) = <<"_", "_", "e", "v", "e", "n", "t", "_", "_", ".">> \o Chars(id) \o <<".">> \o Chars(ev)
Payloads == {1, 2}
\* what the reader holds as payload when readline() returned '' (end-of-stream)
EmptyLine == -1
\* a line that json.loads rejects
Garbage == <<"#", 0>>
\* h1, h2 return; hclose calls pynwjs.close(); hraise raises; hreply is wrapped by
\* emit_result(ReplyEvent) and returns its argument
Handlers == {"h1", "h2", "hclose", "hraise", "hreply"}
ReplyEvent == "b"
\* The application run: the event names and payloads the host and the GUI use,
\* the functions of the registry API the host calls and the names it passes to
\* them, the handlers it registers,
\* and whether the host thread is sent KeyboardInterrupt during the run.
LifeApp == [interrupts |-> FALSE, regops |-> {"on"}, events |-> {"a"}, names |-> {"a"}, payloads |-> {1}, handlers |-> {"hclose"},
            lines |-> {<<"a", 1>>, Garbage}]
DispApp == [interrupts |-> FALSE, regops |-> {"on"}, events |-> {"a", "b"}, names |-> {"a"}, payloads |-> {1, 2}, handlers |-> {"h1", "h2"},
            lines |-> {<<"a", 1>>, <<"b", 2>>, <<"a", 2>>}]
\* a handler that raises, registered with one that returns; lines that fail to decode
ErrApp == [interrupts |-> FALSE, regops |-> {"on"}, events |-> {"a"}, names |-> {"a"}, payloads |-> {1}, handlers |-> {"hraise", "h1"},
           lines |-> {<<"a", 1>>, Garbage}]
\* registrations and clearings under custom and reserved names
RegApp == [interrupts |-> FALSE, regops |-> RegistryOps, events |-> {"a"}, names |-> {"a", "b", "__event__.i.a"}, payloads |-> {1},
           handlers |-> {"h1"}, lines |-> {<<"a", 1>>}]
\* a handler wrapped by emit_result, as in test_instance
ReplyApp == [interrupts |-> FALSE, regops |-> {"callback"}, events |-> {"a"}, names |-> {"a"}, payloads |-> {1}, handlers |-> {"hreply"},
             lines |-> {<<"a", 1>>}]
\* the lifecycle with a host that is sent KeyboardInterrupt while it waits for the process
KillApp == [interrupts |-> TRUE, regops |-> {"on"}, events |-> {"a"}, names |-> {"a"}, payloads |-> {1},
            handlers |-> {"hclose"}, lines |-> {<<"a", 1>>, Garbage}]
InitFailures == {"mkfifo_out", "open_out", "mkfifo_in", "open_in", "thread_new", "thread_start"}
ClosePcs == {"c_active", "c_signal", "c_wait", "c_kwait", "c_out", "c_in", "c_join", "c_rm", "c_unreg"}

VARIABLES
    app,        \* the application run: its event names, payloads and handlers
    instance,   \* NWJS._instance: None or an object
    events,     \* NWJS._events: event name -> list of handlers
    alloc,      \* the NWJS objects that exist
    active,     \* self._active: "unset", "yes", "no"
    tempdir,    \* self._tempdir on disk: "none", "exists", "removed"
    nw,         \* self._nw: "none" (attribute unset), "running", "killed" (sent SIGKILL), "exited"
    wend,       \* the external process holds the write end of js_to_py open
    pipe_out,   \* self._pipe_out: "unset", "open", "closed"
    pipe_in,    \* self._pipe_in: "unset", "open", "closed"
    inbound,    \* lines in js_to_py not yet read
    outbound,   \* frames written to py_to_js
    pc,         \* the statement each thread is at (Host, and the reader of each object)
    tgt,        \* the object a thread is operating on
    ret,        \* where a thread's _close() was called from
    cbs,        \* reader: the handler list being iterated
    cev,        \* reader: the registry key whose list it iterates ("detached": the list left the registry)
    cur,        \* reader: the payload being dispatched, EmptyLine at end-of-stream; host: the frame being emitted
    idx,        \* reader: position in cbs
    hostRef,    \* the host holds a reference to the object returned by open()
    scope,      \* the object whose with-block the host is in, or None
    call,       \* the host's API call in progress, with what held when it was made
    last,       \* the API call that returned in the last step, with its outcome
    opensLeft, framesLeft, regsLeft, emitsLeft,
    written,    \* history: every line the external process wrote, per object
    invoked,    \* history: every handler invocation <<handler, payload>>, per object
    sig,        \* history: send_signal calls on the object's process (capped at 2)
    rmtrees,    \* history: rmtree calls on the object's directory (capped at 2)
    regChanged, \* history: the registry changed after the object's reader started
    raised      \* history: a handler raised or a line failed to decode, per object

objvars == <<alloc, active, tempdir, nw, wend, pipe_out, pipe_in, inbound, outbound>>
thrvars == <<pc, tgt, ret, cbs, cev, cur, idx>>
budgets == <<opensLeft, framesLeft, regsLeft, emitsLeft>>
histvars == <<written, invoked, sig, rmtrees, regChanged, raised>>
vars == <<app, instance, events, objvars, thrvars, hostRef, scope, call, last, budgets, histvars>>

\* ---------------------------------------------------------------- helpers
Min2(n) == IF n >= 2 THEN 2 ELSE n

\* the session is Open: active flag set, process spawned
IsOpen(o) == alloc[o] /\ active[o] = "yes" /\ nw[o] # "none"

\* the session is fully torn down
IsClosed(o) ==
    /\ active[o] = "no"
    /\ nw[o] = "exited"
    /\ pipe_out[o] = "closed"
    /\ pipe_in[o] = "closed"
    /\ tempdir[o] = "removed"

ThreadRunning(o) == pc[o] \notin {"off", "done"}

\* end-of-stream on js_to_py: no writer and nothing buffered
AtEOF(o) == ~wend[o] /\ inbound[o] = <<>>

\* the reader is inside the for loop over callbacks (also while a handler runs close())
InDispatch(o) == pc[o] \in {"disp", "h_write"} \/ (pc[o] \in ClosePcs /\ ret[o] = "handler")

FreeObjs == {o \in Obj : ~alloc[o]}
NewObj == CHOOSE o \in FreeObjs : \A p \in FreeObjs : o <= p

\* An API call of the host: op, the event name a registry call was given, the form
\* a wrapped function returned, the form of open ("plain", "with"), whether the
\* with-body raised, the object it acts on, its outcome, whether it went past its
\* first test (into _close, join or write), and what held when it was made: some
\* session was Open; the object's active flag was set; the registered instance
\* was a torn-down session.
NoCall ==
    [op |-> "none", ev |-> "none", val |-> None, kind |-> "plain", exc |-> FALSE, obj |-> None, res |-> "none",
     entered |-> FALSE, anyOpen |-> FALSE, wasActive |-> FALSE, instClosed |-> FALSE]
MkCall(op, kind, exc, obj, res) ==
    [op |-> op, ev |-> "none", val |-> None, kind |-> kind, exc |-> exc, obj |-> obj, res |-> res,
     entered |-> res = "pending",
     anyOpen |-> \E o \in Obj : IsOpen(o),
     wasActive |-> obj # None /\ active[obj] = "yes",
     instClosed |-> instance # None /\ IsClosed(instance)]
Returned(res) == [call EXCEPT !.res = res]
\* a call of a function wrapped by emit_result(ev) that returns val
WrappedCall(ev, val, obj, res) ==
    [MkCall("emit_result", "plain", FALSE, obj, res) EXCEPT !.ev = ev, !.val = val]
\* a call of the registry API with the event name it was given
RegCall(op, ev, res) == [MkCall(op, "plain", FALSE, None, res) EXCEPT !.ev = ev]

InitWith(a, opens, data) ==
    /\ app = a
    /\ instance = None
    /\ events = [e \in Events |-> <<>>]
    /\ alloc = [o \in Obj |-> FALSE]
    /\ active = [o \in Obj |-> "unset"]
    /\ tempdir = [o \in Obj |-> "none"]
    /\ nw = [o \in Obj |-> "none"]
    /\ wend = [o \in Obj |-> FALSE]
    /\ pipe_out = [o \in Obj |-> "unset"]
    /\ pipe_in = [o \in Obj |-> "unset"]
    /\ inbound = [o \in Obj |-> <<>>]
    /\ outbound = [o \in Obj |-> <<>>]
    /\ pc = [t \in Threads |-> IF t = Host THEN "idle" ELSE "off"]
    /\ tgt = [t \in Threads |-> None]
    /\ ret = [t \in Threads |-> "none"]
    /\ cbs = [o \in Obj |-> <<>>]
    /\ cev = [o \in Obj |-> "a"]
    /\ cur = [t \in Threads |-> IF t = Host THEN <<>> ELSE 0]
    /\ idx = [o \in Obj |-> 0]
    /\ hostRef = [o \in Obj |-> FALSE]
    /\ scope = None
    /\ call = NoCall
    /\ last = NoCall
    /\ opensLeft = opens
    /\ \E d \in data : framesLeft = d[1] /\ regsLeft = d[2] /\ emitsLeft = d[3]
    /\ written = [o \in Obj |-> <<>>]
    /\ invoked = [o \in Obj |-> <<>>]
    /\ sig = [o \in Obj |-> 0]
    /\ rmtrees = [o \in Obj |-> 0]
    /\ regChanged = [o \in Obj |-> FALSE]
    /\ raised = [o \in Obj |-> FALSE]

\* the lifecycle of up to MaxOpens sessions, with a handler that closes
Init == InitWith(LifeApp, MaxOpens, {<<MaxFrames, MaxRegs, 0>>, <<0, 0, MaxEmits>>})
\* sessions opened again and again, each run with one kind of traffic
InitReopen == InitWith(LifeApp, ReOpens, {<<MaxFrames, 0, 0>>, <<0, MaxRegs, 0>>, <<0, 0, MaxEmits>>})
\* one session dispatching several frames to several handlers
InitDisp == InitWith(DispApp, DispOpens, {<<DispFrames, DispRegs, 0>>, <<0, 0, MaxEmits>>})
\* one session, for the properties that need the threads to keep running
InitFair == InitWith(LifeApp, FairOpens, {<<MaxFrames, MaxRegs, 0>>, <<0, 0, MaxEmits>>})
\* one session whose handlers raise and whose lines fail to decode
InitErr == InitWith(ErrApp, ErrOpens, {<<ErrFrames, ErrRegs, 0>>, <<0, 0, MaxEmits>>})
\* one session, with registrations and clearings under custom and reserved names
InitReg == InitWith(RegApp, RegOpens, {<<RegFrames, RegRegs, 0>>, <<0, 0, MaxEmits>>})
\* one session whose handler replies through emit_result
InitReply == InitWith(ReplyApp, ReplyOpens, {<<ReplyFrames, ReplyRegs, 0>>, <<0, 0, MaxEmits>>})
\* one session, a host that may be interrupted, a process that may ignore SIGINT
InitKill == InitWith(KillApp, KillOpens, {<<MaxFrames, MaxRegs, 0>>, <<0, 0, MaxEmits>>})

\* ---------------------------------------------------------------- NWJS._close
\* Thread t leaves _close(): err = "ok" on return, else the exception that escapes
\* it. The host continues in close() (line 294 is skipped by an exception), returns
\* from __exit__ (a body exception is then re-raised), or raises from _init_pipes;
\* a reader continues in the handler that called close() or ends _event_handler.
AfterClose(t, err) ==
    IF t = Host
    THEN /\ raised' = raised
         /\ IF err = "ok" /\ ret[t] = "close"
            THEN /\ pc' = [pc EXCEPT ![t] = "c_unreg"]
                 /\ UNCHANGED <<tgt, ret, call>>
                 /\ last' = NoCall
            ELSE /\ pc' = [pc EXCEPT ![t] = "idle"]
                 /\ tgt' = [tgt EXCEPT ![t] = None]
                 /\ ret' = [ret EXCEPT ![t] = "none"]
                 /\ call' = NoCall
                 /\ last' = Returned(CASE err # "ok" -> err
                                       [] ret[t] = "init" -> "init_failed"
                                       [] call.exc -> "reraised"
                                       [] OTHER -> "ok")
    ELSE /\ UNCHANGED call
         /\ last' = NoCall
         /\ IF ret[t] = "handler"
            THEN /\ pc' = [pc EXCEPT ![t] = IF err = "ok" THEN "c_unreg" ELSE "exc"]
                 /\ raised' = [raised EXCEPT ![t] = @ \/ err # "ok"]
                 /\ UNCHANGED <<tgt, ret>>
            ELSE /\ pc' = [pc EXCEPT ![t] = "done"]
                 /\ tgt' = [tgt EXCEPT ![t] = None]
                 /\ ret' = [ret EXCEPT ![t] = "none"]
                 /\ raised' = raised

\* nwjs.py:69  self._active = False
CloseClearActive(t) ==
    /\ pc[t] = "c_active"
    /\ active' = [active EXCEPT ![tgt[t]] = "no"]
    /\ pc' = [pc EXCEPT ![t] = "c_signal"]
    /\ last' = NoCall
    /\ UNCHANGED <<app, instance, events, alloc, tempdir, nw, wend, pipe_out, pipe_in, inbound,
                   outbound, tgt, ret, cbs, cev, cur, idx, hostRef, scope, call,
                   budgets, histvars>>

\* nwjs.py:71  self._nw.send_signal(SIGINT); AttributeError when Popen never ran,
\* OSError (swallowed, wait() skipped) when the process is gone
CloseSignal(t) ==
    /\ pc[t] = "c_signal"
    /\ IF nw[tgt[t]] = "none"
       THEN /\ AfterClose(t, "AttributeError")
            /\ sig' = sig
       ELSE /\ sig' = [sig EXCEPT ![tgt[t]] = Min2(@ + 1)]
            /\ pc' = [pc EXCEPT ![t] = IF nw[tgt[t]] = "exited" THEN "c_out" ELSE "c_wait"]
            /\ last' = NoCall
            /\ UNCHANGED <<tgt, ret, call, raised>>
    /\ UNCHANGED <<app, instance, events, objvars, cbs, cev, cur, idx, hostRef, scope,
                   budgets, written, invoked, rmtrees, regChanged>>

\* the host thread is sent KeyboardInterrupt while it waits for the process
Interrupted(t) ==
    app.interrupts /\ t = Host /\ pc[t] \in {"c_wait", "c_kwait"} /\ nw[tgt[t]] # "exited"

\* nwjs.py:72  self._nw.wait(): blocks until the process has exited;
\* nwjs.py:75-77  KeyboardInterrupt during it: send SIGKILL and wait again, and a
\* KeyboardInterrupt during the second wait leaves _close()
CloseWait(t) ==
    /\ pc[t] \in {"c_wait", "c_kwait"}
    /\ nw[tgt[t]] = "exited" \/ Interrupted(t)
    /\ IF nw[tgt[t]] = "exited"
       THEN /\ pc' = [pc EXCEPT ![t] = "c_out"]
            /\ last' = NoCall
            /\ UNCHANGED <<nw, tgt, ret, call, raised>>
       ELSE IF pc[t] = "c_wait"
            THEN /\ nw' = [nw EXCEPT ![tgt[t]] = "killed"]
                 /\ pc' = [pc EXCEPT ![t] = "c_kwait"]
                 /\ last' = NoCall
                 /\ UNCHANGED <<tgt, ret, call, raised>>
            ELSE /\ AfterClose(t, "KeyboardInterrupt")
                 /\ nw' = nw
    /\ UNCHANGED <<app, instance, events, alloc, active, tempdir, wend, pipe_out, pipe_in,
                   inbound, outbound, cbs, cev, cur, idx, hostRef, scope, budgets,
                   written, invoked, sig, rmtrees, regChanged>>

\* nwjs.py:79  self._pipe_out.close(); AttributeError (swallowed) skips line 80
ClosePipeOut(t) ==
    /\ pc[t] = "c_out"
    /\ IF pipe_out[tgt[t]] = "unset"
       THEN /\ pc' = [pc EXCEPT ![t] = "c_join"]
            /\ pipe_out' = pipe_out
       ELSE /\ pc' = [pc EXCEPT ![t] = "c_in"]
            /\ pipe_out' = [pipe_out EXCEPT ![tgt[t]] = "closed"]
    /\ last' = NoCall
    /\ UNCHANGED <<app, instance, events, alloc, active, tempdir, nw, wend, pipe_in, inbound,
                   outbound, tgt, ret, cbs, cev, cur, idx, hostRef, scope, call,
                   budgets, histvars>>

\* nwjs.py:80  self._pipe_in.close()
ClosePipeIn(t) ==
    /\ pc[t] = "c_in"
    /\ pipe_in' = [pipe_in EXCEPT ![tgt[t]] = IF @ = "unset" THEN @ ELSE "closed"]
    /\ pc' = [pc EXCEPT ![t] = "c_join"]
    /\ last' = NoCall
    /\ UNCHANGED <<app, instance, events, alloc, active, tempdir, nw, wend, pipe_out, inbound,
                   outbound, tgt, ret, cbs, cev, cur, idx, hostRef, scope, call,
                   budgets, histvars>>

\* faulty variant: join() on the current thread waits like any other join
JoinReturns_SelfBlocks(t, x) == ~ThreadRunning(x)

\* join() returns or raises at once: no thread object, a thread never started,
\* the current thread, or a thread that has ended
JoinReturns(t, x) == x = t \/ ~ThreadRunning(x)

\* nwjs.py:84  self._read_thread.join(); RuntimeError and AttributeError swallowed
CloseJoin(t) ==
    /\ pc[t] = "c_join"
    /\ JoinReturns(t, tgt[t])
    /\ pc' = [pc EXCEPT ![t] = "c_rm"]
    /\ last' = NoCall
    /\ UNCHANGED <<app, instance, events, objvars, tgt, ret, cbs, cev, cur, idx,
                   hostRef, scope, call, budgets, histvars>>

\* nwjs.py:89  shutil.rmtree(self._tempdir): raises OSError when the directory is gone
CloseRmtree(t) ==
    /\ pc[t] = "c_rm"
    /\ rmtrees' = [rmtrees EXCEPT ![tgt[t]] = Min2(@ + 1)]
    /\ IF tempdir[tgt[t]] = "exists"
       THEN /\ tempdir' = [tempdir EXCEPT ![tgt[t]] = "removed"]
            /\ AfterClose(t, "ok")
       ELSE /\ tempdir' = tempdir
            /\ AfterClose(t, "OSError")
    /\ UNCHANGED <<app, instance, events, alloc, active, nw, wend, pipe_out, pipe_in, inbound,
                   outbound, cbs, cev, cur, idx, hostRef, scope,
                   budgets, written, invoked, sig, regChanged>>

\* __init__.py:294  NWJS._instance = None, after _close() returned in close()
CloseUnregister(t) ==
    /\ pc[t] = "c_unreg"
    /\ instance' = None
    /\ pc' = [pc EXCEPT ![t] = IF t = Host THEN "idle" ELSE "disp"]
    /\ tgt' = [tgt EXCEPT ![t] = None]
    /\ ret' = [ret EXCEPT ![t] = "none"]
    /\ IF t = Host
       THEN call' = NoCall /\ last' = Returned("ok")
       ELSE call' = call /\ last' = NoCall
    /\ UNCHANGED <<app, events, objvars, cbs, cev, cur, idx, hostRef, scope, budgets, histvars>>

CloseStep(t) ==
    \/ CloseClearActive(t)
    \/ CloseSignal(t)
    \/ CloseWait(t)
    \/ ClosePipeOut(t)
    \/ ClosePipeIn(t)
    \/ CloseJoin(t)
    \/ CloseRmtree(t)
    \/ CloseUnregister(t)

\* ---------------------------------------------------------------- host API
\* __init__.py:271-273 open() up to nwjs.py:64: the duplicate check, NWJS._instance
\* = self, mkdtemp, Popen (OSError -> ValueError, nothing undone), self._active = True
Open(kind, spawned) ==
    /\ pc[Host] = "idle"
    /\ kind = "with" => scope = None
    /\ instance = None => FreeObjs # {} /\ opensLeft > 0
    /\ IF instance # None
       THEN /\ last' = MkCall("open", kind, FALSE, None, "already_running")
            /\ UNCHANGED <<app, instance, alloc, tempdir, nw, active, pc, tgt, call, opensLeft>>
       ELSE /\ opensLeft' = opensLeft - 1
            /\ instance' = NewObj
            /\ alloc' = [alloc EXCEPT ![NewObj] = TRUE]
            /\ tempdir' = [tempdir EXCEPT ![NewObj] = "exists"]
            /\ IF spawned
               THEN /\ nw' = [nw EXCEPT ![NewObj] = "running"]
                    /\ active' = [active EXCEPT ![NewObj] = "yes"]
                    /\ pc' = [pc EXCEPT ![Host] = "init_pipes"]
                    /\ tgt' = [tgt EXCEPT ![Host] = NewObj]
                    /\ call' = MkCall("open", kind, FALSE, NewObj, "pending")
                    /\ last' = NoCall
               ELSE /\ last' = MkCall("open", kind, FALSE, NewObj, "no_executable")
                    /\ UNCHANGED <<nw, active, pc, tgt, call>>
    /\ UNCHANGED <<app, events, wend, pipe_out, pipe_in, inbound, outbound, ret, cbs, cev, cur, idx,
                   hostRef, scope, framesLeft, regsLeft, emitsLeft, histvars>>

\* faulty variant: a failing step raises without calling _close()
InitPipes_NoCleanup(f) ==
    /\ pc[Host] = "init_pipes"
    /\ f \in {"thread_new", "thread_start", "none"} => nw[tgt[Host]] = "running"
    /\ pipe_out' = [pipe_out EXCEPT ![tgt[Host]] =
                        IF f \in {"mkfifo_out", "open_out"} THEN @ ELSE "open"]
    /\ pipe_in' = [pipe_in EXCEPT ![tgt[Host]] =
                        IF f \in {"thread_new", "thread_start", "none"} THEN "open" ELSE @]
    /\ wend' = [wend EXCEPT ![tgt[Host]] = f \in {"thread_new", "thread_start", "none"}]
    /\ IF f = "none"
       THEN /\ pc' = [pc EXCEPT ![Host] = "open_ret", ![tgt[Host]] = "loop"]
            /\ last' = NoCall
            /\ UNCHANGED <<tgt, call>>
       ELSE /\ pc' = [pc EXCEPT ![Host] = "idle"]
            /\ tgt' = [tgt EXCEPT ![Host] = None]
            /\ call' = NoCall
            /\ last' = Returned("init_failed")
    /\ UNCHANGED <<app, instance, events, alloc, active, tempdir, nw, inbound, outbound,
                   ret, cbs, cev, cur, idx, hostRef, scope, budgets, histvars>>

\* nwjs.py:92-106 _init_pipes: the steps before f succeed, f raises (f = "none": all
\* succeed and the reader thread runs). Opening js_to_py for reading returns only
\* once the external process has opened it for writing.
InitPipes(f) ==
    /\ pc[Host] = "init_pipes"
    /\ f \in {"thread_new", "thread_start", "none"} => nw[tgt[Host]] = "running"
    /\ pipe_out' = [pipe_out EXCEPT ![tgt[Host]] =
                        IF f \in {"mkfifo_out", "open_out"} THEN @ ELSE "open"]
    /\ pipe_in' = [pipe_in EXCEPT ![tgt[Host]] =
                        IF f \in {"thread_new", "thread_start", "none"} THEN "open" ELSE @]
    /\ wend' = [wend EXCEPT ![tgt[Host]] = f \in {"thread_new", "thread_start", "none"}]
    /\ IF f = "none"
       THEN /\ pc' = [pc EXCEPT ![Host] = "open_ret", ![tgt[Host]] = "loop"]
            /\ ret' = ret
       ELSE /\ pc' = [pc EXCEPT ![Host] = "c_active"]
            /\ ret' = [ret EXCEPT ![Host] = "init"]
    /\ last' = NoCall
    /\ UNCHANGED <<app, instance, events, alloc, active, tempdir, nw, inbound, outbound,
                   tgt, cbs, cev, cur, idx, hostRef, scope, call, budgets, histvars>>

\* __init__.py:273-274  NWJS._instance = NWJS(app_root); return NWJS._instance
OpenReturn ==
    /\ pc[Host] = "open_ret"
    /\ instance' = tgt[Host]
    /\ pc' = [pc EXCEPT ![Host] = "idle"]
    /\ tgt' = [tgt EXCEPT ![Host] = None]
    /\ IF call.kind = "with"
       THEN scope' = tgt[Host] /\ hostRef' = hostRef
       ELSE scope' = scope /\ hostRef' = [hostRef EXCEPT ![tgt[Host]] = TRUE]
    /\ call' = NoCall
    /\ last' = Returned("ok")
    /\ UNCHANGED <<app, events, objvars, ret, cbs, cev, cur, idx, budgets, histvars>>

\* __init__.py:292-293 close(): nothing without an instance, else _close() on it
Close ==
    /\ pc[Host] = "idle"
    /\ IF instance = None
       THEN /\ last' = MkCall("close", "plain", FALSE, None, "ok")
            /\ UNCHANGED <<pc, tgt, ret, call>>
       ELSE /\ last' = NoCall
            /\ call' = MkCall("close", "plain", FALSE, instance, "pending")
            /\ pc' = [pc EXCEPT ![Host] = "c_active"]
            /\ tgt' = [tgt EXCEPT ![Host] = instance]
            /\ ret' = [ret EXCEPT ![Host] = "close"]
    /\ UNCHANGED <<app, instance, events, objvars, cbs, cev, cur, idx, hostRef, scope,
                   budgets, histvars>>

\* faulty variant: __exit__ returns nothing when the session is not active
ScopeExit_NoSuppress(exc) ==
    /\ pc[Host] = "idle"
    /\ scope # None
    /\ instance' = None
    /\ scope' = None
    /\ IF active[scope] = "yes"
       THEN /\ last' = NoCall
            /\ call' = MkCall("exit", "with", exc, scope, "pending")
            /\ pc' = [pc EXCEPT ![Host] = "c_active"]
            /\ tgt' = [tgt EXCEPT ![Host] = scope]
            /\ ret' = [ret EXCEPT ![Host] = "exit"]
       ELSE /\ last' = MkCall("exit", "with", exc, scope, IF exc THEN "reraised" ELSE "ok")
            /\ UNCHANGED <<pc, tgt, ret, call>>
    /\ UNCHANGED <<app, events, objvars, cbs, cev, cur, idx, hostRef, budgets, histvars>>

\* nwjs.py:161-168 __exit__, the with-block left normally or by an exception exc:
\* returning True swallows the exception
ScopeExit(exc) ==
    /\ pc[Host] = "idle"
    /\ scope # None
    /\ instance' = None
    /\ scope' = None
    /\ IF active[scope] = "yes"
       THEN /\ last' = NoCall
            /\ call' = MkCall("exit", "with", exc, scope, "pending")
            /\ pc' = [pc EXCEPT ![Host] = "c_active"]
            /\ tgt' = [tgt EXCEPT ![Host] = scope]
            /\ ret' = [ret EXCEPT ![Host] = "exit"]
       ELSE /\ last' = MkCall("exit", "with", exc, scope, IF exc THEN "suppressed" ELSE "ok")
            /\ UNCHANGED <<pc, tgt, ret, call>>
    /\ UNCHANGED <<app, events, objvars, cbs, cev, cur, idx, hostRef, budgets, histvars>>

\* __init__.py:200-204 emit() and nwjs.py:120-122: instance(), then the test of
\* self._active (AttributeError when __init__ never set it)
Emit(e, p) ==
    /\ pc[Host] = "idle"
    /\ instance # None /\ active[instance] = "yes" => emitsLeft > 0
    /\ IF instance # None /\ active[instance] = "yes"
       THEN /\ emitsLeft' = emitsLeft - 1
            /\ last' = NoCall
            /\ call' = MkCall("emit", "plain", FALSE, instance, "pending")
            /\ pc' = [pc EXCEPT ![Host] = "emit_write"]
            /\ tgt' = [tgt EXCEPT ![Host] = instance]
            /\ cur' = [cur EXCEPT ![Host] = <<e, p>>]
       ELSE /\ last' = MkCall("emit", "plain", FALSE, instance,
                              CASE instance = None -> "not_running"
                                [] active[instance] = "unset" -> "AttributeError"
                                [] OTHER -> "closed_window")
            /\ UNCHANGED <<pc, tgt, cur, call, emitsLeft>>
    /\ UNCHANGED <<app, instance, events, objvars, ret, cbs, cev, idx, hostRef, scope,
                   opensLeft, framesLeft, regsLeft, histvars>>

\* __init__.py:128-135 emit_function: the wrapped function returns r; a result that
\* is not None is written through NWJS.instance()._write, and only RuntimeError
\* (no instance, closed window) is swallowed
EmitResult(e, r) ==
    /\ pc[Host] = "idle"
    /\ (r # None /\ instance # None /\ active[instance] = "yes") => emitsLeft > 0
    /\ IF r # None /\ instance # None /\ active[instance] = "yes"
       THEN /\ emitsLeft' = emitsLeft - 1
            /\ last' = NoCall
            /\ call' = WrappedCall(e, r, instance, "pending")
            /\ pc' = [pc EXCEPT ![Host] = "emit_write"]
            /\ tgt' = [tgt EXCEPT ![Host] = instance]
            /\ cur' = [cur EXCEPT ![Host] = <<e, r>>]
       ELSE /\ last' = WrappedCall(e, r, instance,
                                   IF r # None /\ instance # None /\ active[instance] = "unset"
                                   THEN "AttributeError" ELSE "ok")
            /\ UNCHANGED <<pc, tgt, cur, call, emitsLeft>>
    /\ UNCHANGED <<app, instance, events, objvars, ret, cbs, cev, idx, hostRef, scope,
                   opensLeft, framesLeft, regsLeft, histvars>>

\* nwjs.py:124-128  self._pipe_out.write(...); flush(): ValueError on a closed file
EmitWrite ==
    /\ pc[Host] = "emit_write"
    /\ pc' = [pc EXCEPT ![Host] = "idle"]
    /\ tgt' = [tgt EXCEPT ![Host] = None]
    /\ cur' = [cur EXCEPT ![Host] = <<>>]
    /\ call' = NoCall
    /\ IF pipe_out[tgt[Host]] = "open"
       THEN /\ outbound' = [outbound EXCEPT ![tgt[Host]] = Append(@, cur[Host])]
            /\ last' = Returned("ok")
       ELSE /\ outbound' = outbound
            /\ last' = Returned("ValueError")
    /\ UNCHANGED <<app, instance, events, alloc, active, tempdir, nw, wend, pipe_out, pipe_in,
                   inbound, ret, cbs, cev, idx, hostRef, scope, budgets, histvars>>

\* __init__.py:282-283 wait() and nwjs.py:131  if self._active: join
Wait ==
    /\ pc[Host] = "idle"
    /\ IF instance # None /\ active[instance] = "yes"
       THEN /\ last' = NoCall
            /\ call' = MkCall("wait", "plain", FALSE, instance, "pending")
            /\ pc' = [pc EXCEPT ![Host] = "wait_join"]
            /\ tgt' = [tgt EXCEPT ![Host] = instance]
       ELSE /\ last' = MkCall("wait", "plain", FALSE, instance,
                              IF instance # None /\ active[instance] = "unset"
                              THEN "AttributeError" ELSE "ok")
            /\ UNCHANGED <<pc, tgt, call>>
    /\ UNCHANGED <<app, instance, events, objvars, ret, cbs, cev, cur, idx, hostRef, scope,
                   budgets, histvars>>

\* nwjs.py:132  self._read_thread.join()
WaitJoin ==
    /\ pc[Host] = "wait_join"
    /\ JoinReturns(Host, tgt[Host])
    /\ pc' = [pc EXCEPT ![Host] = "idle"]
    /\ tgt' = [tgt EXCEPT ![Host] = None]
    /\ call' = NoCall
    /\ last' = Returned("ok")
    /\ UNCHANGED <<app, instance, events, objvars, ret, cbs, cev, cur, idx,
                   hostRef, scope, budgets, histvars>>

\* NWJS._events[key].append(h): the append is seen by a reader iterating that list
RegistryAppend(op, ev, key, h) ==
    /\ pc[Host] = "idle"
    /\ regsLeft > 0
    /\ regsLeft' = regsLeft - 1
    /\ events' = [events EXCEPT ![key] = Append(@, h)]
    /\ cbs' = [o \in Obj |-> IF InDispatch(o) /\ cev[o] = key THEN Append(cbs[o], h) ELSE cbs[o]]
    /\ regChanged' = [o \in Obj |-> regChanged[o] \/ pc[o] # "off"]
    /\ last' = RegCall(op, ev, "ok")
    /\ UNCHANGED <<app, instance, objvars, pc, tgt, ret, cev, cur, idx, hostRef, scope, call,
                   opensLeft, framesLeft, emitsLeft, written, invoked, sig, rmtrees, raised>>

\* raise ValueError("Invalid event name, ..."): nothing changes
RegistryRejected(op, ev) ==
    /\ pc[Host] = "idle"
    /\ last' = RegCall(op, ev, "ValueError")
    /\ UNCHANGED <<app, instance, events, objvars, thrvars, hostRef, scope, call, budgets, histvars>>

\* __init__.py:152-154 on(event, callback)
On(e, h) ==
    IF StartsWith(e, Sentinel) THEN RegistryRejected("on", e)
    ELSE RegistryAppend("on", e, e, h)

\* __init__.py:83-90 the decorator made by callback(event), applied to a function of
\* one argument: no test of the event name
Callback(e, h) == RegistryAppend("callback", e, e, h)

\* __init__.py:239 add_event_listener(id, event, callback)
AddEventListener(id, ev, h) ==
    RegistryAppend("add_event_listener", ListenerKey(id, ev), ListenerKey(id, ev), h)

\* __init__.py:46-53 the decorator made by event_listener(id, event), applied to a
\* function of one argument
EventListener(id, ev, h) ==
    RegistryAppend("event_listener", ListenerKey(id, ev), ListenerKey(id, ev), h)

\* faulty variant: clearing one event empties the whole registry
RegistryRemove_All(e) == [k \in Events |-> <<>>]

\* del NWJS._events[event]: the key is gone, a lookup finds no handler
RegistryRemove(e) == [events EXCEPT ![e] = <<>>]

\* __init__.py:165-170 clear(event): a list a reader is iterating is not changed, it
\* only leaves the registry
Clear(e) ==
    IF StartsWith(e, Sentinel) THEN RegistryRejected("clear", e)
    ELSE /\ pc[Host] = "idle"
         /\ regsLeft > 0
         /\ regsLeft' = regsLeft - 1
         /\ events' = RegistryRemove(e)
         /\ cev' = [o \in Obj |-> IF InDispatch(o) /\ cev[o] = e THEN "detached" ELSE cev[o]]
         /\ regChanged' = [o \in Obj |-> regChanged[o] \/ pc[o] # "off"]
         /\ last' = RegCall("clear", e, "ok")
         /\ UNCHANGED <<app, instance, objvars, pc, tgt, ret, cbs, cur, idx, hostRef, scope, call,
                        opensLeft, framesLeft, emitsLeft, written, invoked, sig, rmtrees, raised>>

\* __init__.py:165-166 clear(): NWJS._events = collections.defaultdict(list)
ClearAll ==
    /\ pc[Host] = "idle"
    /\ regsLeft > 0
    /\ regsLeft' = regsLeft - 1
    /\ events' = [k \in Events |-> <<>>]
    /\ cev' = [o \in Obj |-> IF InDispatch(o) THEN "detached" ELSE cev[o]]
    /\ regChanged' = [o \in Obj |-> regChanged[o] \/ pc[o] # "off"]
    /\ last' = RegCall("clear_all", "none", "ok")
    /\ UNCHANGED <<app, instance, objvars, pc, tgt, ret, cbs, cur, idx, hostRef, scope, call,
                   opensLeft, framesLeft, emitsLeft, written, invoked, sig, rmtrees, raised>>

\* the host calls one function of the registry API
RegistryCall(op, e, id, ev, h) ==
    CASE op = "on" -> On(e, h)
      [] op = "callback" -> Callback(e, h)
      [] op = "add_event_listener" -> AddEventListener(id, ev, h)
      [] op = "event_listener" -> EventListener(id, ev, h)
      [] op = "clear" -> Clear(e)
      [] op = "clear_all" -> ClearAll

\* the host drops the reference open() returned
DropRef(o) ==
    /\ pc[Host] = "idle"
    /\ hostRef[o]
    /\ hostRef' = [hostRef EXCEPT ![o] = FALSE]
    /\ last' = NoCall
    /\ UNCHANGED <<app, instance, events, objvars, thrvars, scope, call, budgets, histvars>>

\* nothing refers to the object: not the host, a with-statement, NWJS._instance,
\* a running reader thread (its target is a bound method) or a call in progress
Unreferenced(o) ==
    /\ alloc[o]
    /\ ~hostRef[o]
    /\ scope # o
    /\ instance # o
    /\ ~ThreadRunning(o)
    /\ \A t \in Threads : tgt[t] # o

\* nwjs.py:153-156 __del__ of an unreferenced object whose _active is not True: an
\* AttributeError from self._active is ignored and skips line 156; the object is gone
Finalize(o) ==
    /\ pc[Host] = "idle"
    /\ Unreferenced(o)
    /\ active[o] # "yes"
    /\ instance' = IF active[o] = "unset" THEN instance ELSE None
    /\ alloc' = [alloc EXCEPT ![o] = FALSE]
    /\ active' = [active EXCEPT ![o] = "unset"]
    /\ tempdir' = [tempdir EXCEPT ![o] = "none"]
    /\ nw' = [nw EXCEPT ![o] = "none"]
    /\ wend' = [wend EXCEPT ![o] = FALSE]
    /\ pipe_out' = [pipe_out EXCEPT ![o] = "unset"]
    /\ pipe_in' = [pipe_in EXCEPT ![o] = "unset"]
    /\ inbound' = [inbound EXCEPT ![o] = <<>>]
    /\ outbound' = [outbound EXCEPT ![o] = <<>>]
    /\ pc' = [pc EXCEPT ![o] = "off"]
    /\ written' = [written EXCEPT ![o] = <<>>]
    /\ invoked' = [invoked EXCEPT ![o] = <<>>]
    /\ sig' = [sig EXCEPT ![o] = 0]
    /\ rmtrees' = [rmtrees EXCEPT ![o] = 0]
    /\ regChanged' = [regChanged EXCEPT ![o] = FALSE]
    /\ raised' = [raised EXCEPT ![o] = FALSE]
    /\ last' = NoCall
    /\ UNCHANGED <<app, events, tgt, ret, cbs, cev, cur, idx, hostRef, scope, call, budgets>>

\* ---------------------------------------------------------------- external process
\* the nwjs process writes one line to js_to_py
ProcWrite(o, line) ==
    /\ nw[o] = "running"
    /\ wend[o]
    /\ framesLeft > 0
    /\ framesLeft' = framesLeft - 1
    /\ inbound' = [inbound EXCEPT ![o] = Append(@, line)]
    /\ written' = [written EXCEPT ![o] = Append(@, line)]
    /\ last' = NoCall
    /\ UNCHANGED <<app, instance, events, alloc, active, tempdir, nw, wend, pipe_out, pipe_in,
                   outbound, thrvars, hostRef, scope, call, opensLeft, regsLeft, emitsLeft,
                   invoked, sig, rmtrees, regChanged, raised>>

\* the nwjs process closes its end of js_to_py and keeps running
ProcClosePipe(o) ==
    /\ nw[o] = "running"
    /\ wend[o]
    /\ wend' = [wend EXCEPT ![o] = FALSE]
    /\ last' = NoCall
    /\ UNCHANGED <<app, instance, events, alloc, active, tempdir, nw, pipe_out, pipe_in,
                   inbound, outbound, thrvars, hostRef, scope, call, budgets, histvars>>

\* the nwjs process exits: the window was closed, or a signal arrived (SIGINT may
\* be ignored, SIGKILL cannot)
ProcExit(o) ==
    /\ nw[o] \in {"running", "killed"}
    /\ nw' = [nw EXCEPT ![o] = "exited"]
    /\ wend' = [wend EXCEPT ![o] = FALSE]
    /\ last' = NoCall
    /\ UNCHANGED <<app, instance, events, alloc, active, tempdir, pipe_out, pipe_in,
                   inbound, outbound, thrvars, hostRef, scope, call, budgets, histvars>>

\* ---------------------------------------------------------------- NWJS._event_handler
\* nwjs.py:136  while self._active and self._pipe_in.readable()
ReaderLoop(o) ==
    /\ pc[o] = "loop"
    /\ pc' = [pc EXCEPT ![o] = IF active[o] = "yes" THEN "read" ELSE "after"]
    /\ last' = NoCall
    /\ UNCHANGED <<app, instance, events, objvars, tgt, ret, cbs, cev, cur, idx,
                   hostRef, scope, call, budgets, histvars>>

\* the line readline() returns from the buffered lines, and what stays buffered
NextLine(q) == Head(q)
RestLines(q) == Tail(q)

\* nwjs.py:138-141  readline, json.loads, callbacks = NWJS._events[event]:
\* a closed file, end-of-stream ('') and a malformed line all raise
ReaderRead(o) ==
    /\ pc[o] = "read"
    /\ pipe_in[o] = "closed" \/ inbound[o] # <<>> \/ AtEOF(o)
    /\ IF pipe_in[o] # "closed" /\ inbound[o] # <<>>
       THEN /\ inbound' = [inbound EXCEPT ![o] = RestLines(@)]
            /\ IF NextLine(inbound[o]) = Garbage
               THEN /\ pc' = [pc EXCEPT ![o] = "exc"]
                    /\ raised' = [raised EXCEPT ![o] = TRUE]
                    /\ UNCHANGED <<cbs, cev, cur, idx>>
               ELSE /\ pc' = [pc EXCEPT ![o] = "disp"]
                    /\ cev' = [cev EXCEPT ![o] = NextLine(inbound[o])[1]]
                    /\ cur' = [cur EXCEPT ![o] = NextLine(inbound[o])[2]]
                    /\ cbs' = [cbs EXCEPT ![o] = events[NextLine(inbound[o])[1]]]
                    /\ idx' = [idx EXCEPT ![o] = 1]
                    /\ raised' = raised
       ELSE /\ pc' = [pc EXCEPT ![o] = "exc"]
            /\ cur' = [cur EXCEPT ![o] = IF pipe_in[o] # "closed" THEN EmptyLine ELSE @]
            /\ UNCHANGED <<inbound, cbs, cev, idx, raised>>
    /\ last' = NoCall
    /\ UNCHANGED <<app, instance, events, alloc, active, tempdir, nw, wend, pipe_out, pipe_in,
                   outbound, tgt, ret, hostRef, scope, call, budgets,
                   written, invoked, sig, rmtrees, regChanged>>

\* faulty variant: the for loop runs over the list from its end
PickCallback_Reversed(list, i) == list[Len(list) + 1 - i]

\* the callback the for loop takes at position i
PickCallback(list, i) == list[i]

\* the reader's dispatch variables once the for loop is left
DispatchLeft(o) ==
    /\ cbs' = [cbs EXCEPT ![o] = <<>>]
    /\ cev' = [cev EXCEPT ![o] = "a"]
    /\ cur' = [cur EXCEPT ![o] = 0]
    /\ idx' = [idx EXCEPT ![o] = 0]

\* __init__.py:132 inside a handler wrapped by emit_result, on the reader thread:
\* NWJS.instance()._write past the test of _active, write and flush
HandlerWrite(o) ==
    /\ tgt' = [tgt EXCEPT ![o] = None]
    /\ IF pipe_out[tgt[o]] = "open"
       THEN /\ outbound' = [outbound EXCEPT ![tgt[o]] = Append(@, <<ReplyEvent, cur[o]>>)]
            /\ pc' = [pc EXCEPT ![o] = "disp"]
            /\ UNCHANGED <<raised, cbs, cev, cur, idx>>
       ELSE /\ outbound' = outbound
            /\ pc' = [pc EXCEPT ![o] = "exc"]
            /\ raised' = [raised EXCEPT ![o] = TRUE]
            /\ DispatchLeft(o)
    /\ UNCHANGED <<app, instance, events, alloc, active, tempdir, nw, wend, pipe_out, pipe_in,
                   inbound, ret, hostRef, scope, call, budgets,
                   written, invoked, sig, rmtrees, regChanged>>

\* nwjs.py:142-143  for callback in callbacks: callback(payload)
\* a handler returns, raises, calls pynwjs.close() (__init__.py:292-293), or returns
\* its argument through emit_result (__init__.py:129-135)
DispatchNext(o) ==
    /\ IF idx[o] > Len(cbs[o])
       THEN /\ pc' = [pc EXCEPT ![o] = "loop"]
            /\ DispatchLeft(o)
            /\ UNCHANGED <<invoked, raised, tgt, ret>>
       ELSE /\ invoked' = [invoked EXCEPT ![o] = Append(@, <<PickCallback(cbs[o], idx[o]), cur[o]>>)]
            /\ CASE PickCallback(cbs[o], idx[o]) = "hraise" ->
                      /\ pc' = [pc EXCEPT ![o] = "exc"]
                      /\ raised' = [raised EXCEPT ![o] = TRUE]
                      /\ DispatchLeft(o)
                      /\ UNCHANGED <<tgt, ret>>
                 [] PickCallback(cbs[o], idx[o]) = "hclose" /\ instance # None ->
                      /\ pc' = [pc EXCEPT ![o] = "c_active"]
                      /\ tgt' = [tgt EXCEPT ![o] = instance]
                      /\ ret' = [ret EXCEPT ![o] = "handler"]
                      /\ idx' = [idx EXCEPT ![o] = @ + 1]
                      /\ UNCHANGED <<raised, cbs, cev, cur>>
                 [] PickCallback(cbs[o], idx[o]) = "hreply" /\ instance # None
                        /\ active[instance] = "yes" ->
                      /\ pc' = [pc EXCEPT ![o] = "h_write"]
                      /\ tgt' = [tgt EXCEPT ![o] = instance]
                      /\ idx' = [idx EXCEPT ![o] = @ + 1]
                      /\ UNCHANGED <<ret, raised, cbs, cev, cur>>
                 [] PickCallback(cbs[o], idx[o]) = "hreply" /\ instance # None
                        /\ active[instance] = "unset" ->
                      /\ pc' = [pc EXCEPT ![o] = "exc"]
                      /\ raised' = [raised EXCEPT ![o] = TRUE]
                      /\ DispatchLeft(o)
                      /\ UNCHANGED <<tgt, ret>>
                 [] OTHER ->
                      /\ idx' = [idx EXCEPT ![o] = @ + 1]
                      /\ UNCHANGED <<pc, tgt, ret, raised, cbs, cev, cur>>
    /\ UNCHANGED <<app, instance, events, objvars, hostRef, scope, call, budgets,
                   written, sig, rmtrees, regChanged>>

ReaderDispatch(o) ==
    /\ pc[o] \in {"disp", "h_write"}
    /\ last' = NoCall
    /\ IF pc[o] = "h_write" THEN HandlerWrite(o) ELSE DispatchNext(o)

\* faulty variant: any exception ends the loop
ReaderExcept_Breaks(o) ==
    /\ pc[o] = "exc"
    /\ pc' = [pc EXCEPT ![o] = "after"]
    /\ DispatchLeft(o)
    /\ tgt' = [tgt EXCEPT ![o] = None]
    /\ ret' = [ret EXCEPT ![o] = "none"]
    /\ last' = NoCall
    /\ UNCHANGED <<app, instance, events, objvars, hostRef, scope, call, budgets, histvars>>

\* nwjs.py:144-148  except Exception: break when the process has exited, else warn
ReaderExcept(o) ==
    /\ pc[o] = "exc"
    /\ pc' = [pc EXCEPT ![o] = IF nw[o] = "exited" THEN "after" ELSE "loop"]
    /\ DispatchLeft(o)
    /\ tgt' = [tgt EXCEPT ![o] = None]
    /\ ret' = [ret EXCEPT ![o] = "none"]
    /\ last' = NoCall
    /\ UNCHANGED <<app, instance, events, objvars, hostRef, scope, call, budgets, histvars>>

\* faulty variant: the reader ends without closing the session
ReaderAfter_NoClose(o) ==
    /\ pc[o] = "after"
    /\ pc' = [pc EXCEPT ![o] = "done"]
    /\ last' = NoCall
    /\ UNCHANGED <<app, instance, events, objvars, tgt, ret, cbs, cev, cur, idx, hostRef,
                   scope, call, budgets, histvars>>

\* nwjs.py:150-151  if self._active and self._nw.poll() is not None: self._close()
ReaderAfter(o) ==
    /\ pc[o] = "after"
    /\ IF active[o] = "yes" /\ nw[o] = "exited"
       THEN /\ pc' = [pc EXCEPT ![o] = "c_active"]
            /\ tgt' = [tgt EXCEPT ![o] = o]
            /\ ret' = [ret EXCEPT ![o] = "after"]
       ELSE /\ pc' = [pc EXCEPT ![o] = "done"]
            /\ UNCHANGED <<tgt, ret>>
    /\ last' = NoCall
    /\ UNCHANGED <<app, instance, events, objvars, cbs, cev, cur, idx, hostRef, scope, call,
                   budgets, histvars>>

ReaderStep(o) ==
    \/ ReaderLoop(o)
    \/ ReaderRead(o)
    \/ ReaderDispatch(o)
    \/ ReaderExcept(o)
    \/ ReaderAfter(o)
    \/ CloseStep(o)

HostStep ==
    \/ \E f \in InitFailures \cup {"none"} : InitPipes(f)
    \/ OpenReturn
    \/ EmitWrite
    \/ WaitJoin
    \/ CloseStep(Host)

HostCall ==
    \/ \E kind \in {"plain", "with"}, spawned \in BOOLEAN : Open(kind, spawned)
    \/ Close
    \/ \E exc \in BOOLEAN : ScopeExit(exc)
    \/ \E e \in app.events, p \in app.payloads : Emit(e, p)
    \/ \E e \in app.events, r \in app.payloads \cup {None} : EmitResult(e, r)
    \/ Wait
    \/ \E op \in app.regops, e \in app.names, id \in ElementIds, ev \in HtmlEvents,
          h \in app.handlers : RegistryCall(op, e, id, ev, h)
    \/ \E o \in Obj : DropRef(o)
    \/ \E o \in Obj : Finalize(o)

ProcStep(o) ==
    \/ \E line \in app.lines : ProcWrite(o, line)
    \/ ProcClosePipe(o)
    \/ ProcExit(o)

Next ==
    \/ HostCall
    \/ HostStep
    \/ \E o \in Obj : ReaderStep(o)
    \/ \E o \in Obj : ProcStep(o)

Spec == Init /\ [][Next]_vars
SpecReopen == InitReopen /\ [][Next]_vars
SpecDisp == InitDisp /\ [][Next]_vars
SpecErr == InitErr /\ [][Next]_vars
SpecReply == InitReply /\ [][Next]_vars
SpecReg == InitReg /\ [][Next]_vars

\* A thread that can take a step eventually takes one (the interpreter switches
\* threads), and a process sent SIGINT exits (nwjs does not ignore it).
Fairness ==
    /\ WF_vars(HostStep)
    /\ \A o \in Obj : WF_vars(ReaderStep(o))
    /\ \A o \in Obj : WF_vars(sig[o] > 0 /\ ProcExit(o))
FairSpec == InitFair /\ [][Next]_vars /\ Fairness

\* Threads keep running and a process sent SIGKILL exits; a process sent SIGINT
\* may ignore it, and nothing makes a KeyboardInterrupt arrive.
FairnessKill ==
    /\ WF_vars(HostStep /\ ~Interrupted(Host))
    /\ \A o \in Obj : WF_vars(ReaderStep(o))
    /\ \A o \in Obj : WF_vars(nw[o] = "killed" /\ ProcExit(o))
KillSpec == InitKill /\ [][Next]_vars /\ FairnessKill

\* ---------------------------------------------------------------- model sanity
TypeOK ==
    /\ instance \in Obj \cup {None}
    /\ scope \in Obj \cup {None}
    /\ \A o \in Obj : active[o] \in {"unset", "yes", "no"}
    /\ \A o \in Obj : tempdir[o] \in {"none", "exists", "removed"}
    /\ \A o \in Obj : nw[o] \in {"none", "running", "killed", "exited"}
    /\ \A t \in Threads : tgt[t] \in Obj \cup {None}
    /\ pc[Host] = "idle" <=> call = NoCall
    /\ \A t \in Threads : pc[t] \in ClosePcs => tgt[t] # None /\ alloc[tgt[t]]
    /\ instance # None => alloc[instance]
    /\ scope # None => alloc[scope]

\* __del__ never finds self._active True (nwjs.py:154-155 never calls _close):
\* an object with the flag set is referenced by its reader thread or by a call
DelNeverCloses == \A o \in Obj : Unreferenced(o) => active[o] # "yes"

\* ---------------------------------------------------------------- properties
\* C1: in every reachable state at most one session is Open, and an open() made
\* while a session is Open is rejected as a duplicate.
C1_AtMostOneOpen ==
    /\ Cardinality({o \in Obj : IsOpen(o)}) <= 1
    /\ (call.op = "open" /\ call.anyOpen) => FALSE
    /\ (last.op = "open" /\ last.anyOpen) => last.res = "already_running"

\* C3: when open() fails because the executable cannot be launched, its temporary
\* directory is gone, no process runs and the session is not active.
C3_SpawnFailureLeavesNothing ==
    (last.op = "open" /\ last.res = "no_executable") =>
        /\ tempdir[last.obj] # "exists"
        /\ nw[last.obj] # "running"
        /\ active[last.obj] # "yes"

\* C5: emit() called when no session is Open fails with the closed-session error
\* (RuntimeError: not running, or closed window) and writes nothing.
C5_EmitOnClosedRejected ==
    (last.op = "emit" /\ ~last.anyOpen) =>
        /\ last.res \in {"not_running", "closed_window"}
        /\ ~last.entered

\* C6: close() on a session that is already torn down raises nothing and does
\* nothing: no second signal, no second rmtree.
C6_CloseIdempotent ==
    (last.op = "close" /\ last.instClosed) =>
        /\ last.res = "ok"
        /\ sig[last.obj] <= 1
        /\ rmtrees[last.obj] <= 1

\* C8: once the with-block has been left, its session is torn down (process not
\* running, streams closed, directory removed) and no instance is registered.
C8_ScopeExitLeavesClosed ==
    last.op = "exit" => IsClosed(last.obj) /\ instance = None

\* C4: when channel creation fails after the process was spawned, open() raises
\* the initialization error, and then the process has exited, no stream is open,
\* the temporary directory is removed and the session is not active.
C4_InitFailureUnwinds ==
    (last.op = "open" /\ last.entered /\ last.res # "ok") =>
        /\ last.res = "init_failed"
        /\ nw[last.obj] = "exited"
        /\ pipe_out[last.obj] # "open"
        /\ pipe_in[last.obj] # "open"
        /\ tempdir[last.obj] = "removed"
        /\ active[last.obj] = "no"
C4_Witness ==
    /\ last.op = "open"
    /\ last.res = "init_failed"
    /\ pipe_in[last.obj] = "closed"
    /\ pipe_out[last.obj] = "closed"

\* C9: a with-block left while its session is no longer active ends normally: a
\* body exception is swallowed and __exit__ runs no teardown.
C9_ExitWhenClosed ==
    (last.op = "exit" /\ ~last.wasActive) =>
        /\ last.res = IF last.exc THEN "suppressed" ELSE "ok"
        /\ ~last.entered
C9_Witness ==
    /\ last.op = "exit"
    /\ ~last.wasActive
    /\ last.exc
    /\ last.res = "suppressed"
    /\ IsClosed(last.obj)

\* the invocations the lines call for: per line, the handlers registered for its
\* event, in registration order, each with the line's payload
CallsFor(line, reg) ==
    IF line = Garbage THEN <<>>
    ELSE [i \in 1..Len(reg[line[1]]) |-> <<reg[line[1]][i], line[2]>>]
RECURSIVE ExpectedCalls(_, _)
ExpectedCalls(lines, reg) ==
    IF lines = <<>> THEN <<>>
    ELSE CallsFor(Head(lines), reg) \o ExpectedCalls(Tail(lines), reg)
Consumed(o) == Len(written[o]) - Len(inbound[o])

\* C10: when no handler raised and the registry did not change since the reader
\* started, the reader's invocations are exactly those the lines read so far call
\* for, in order; inside the for loop, those of the earlier lines and the first
\* idx - 1 of the current line.
C10_DispatchOrder ==
    \A o \in Obj : (alloc[o] /\ ~regChanged[o] /\ ~raised[o]) =>
        IF InDispatch(o)
        THEN invoked[o] =
                ExpectedCalls(SubSeq(written[o], 1, Consumed(o) - 1), events)
                \o SubSeq(CallsFor(written[o][Consumed(o)], events), 1, idx[o] - 1)
        ELSE invoked[o] = ExpectedCalls(SubSeq(written[o], 1, Consumed(o)), events)
C10_Witness ==
    \E o \in Obj :
        /\ ~regChanged[o]
        /\ pc[o] = "loop"
        /\ invoked[o] = <<<<"h1", 1>>, <<"h2", 1>>, <<"h1", 2>>, <<"h2", 2>>>>

\* C2: once the external process of an Open session has exited, the session
\* becomes Closed (flag cleared, streams closed, directory removed) and its reader
\* ends, whether or not the host calls close(); and a wait() made when the
\* registered session is torn down returns without joining.
C2_ProcessExitCloses ==
    /\ \A o \in Obj :
          (IsOpen(o) /\ nw[o] = "exited" /\ ThreadRunning(o))
              ~> (IsClosed(o) /\ ~ThreadRunning(o))
    /\ [](last.op = "wait" /\ last.instClosed => last.res = "ok" /\ ~last.entered)
C2_Witness ==
    /\ last.op = "wait"
    /\ last.instClosed
    /\ pc[last.obj] = "done"
    /\ rmtrees[last.obj] = 1
    /\ sig[last.obj] = 1
    /\ last.res = "ok"

\* C7: a close() called by a handler on the reader of the registered session
\* returns with the session torn down, its join of the reader itself does not
\* block, and the reader then ends.
C7_HandlerCloseEnds ==
    /\ [](\A o \in Obj : (pc[o] = "c_unreg" /\ tgt[o] = o) => IsClosed(o))
    /\ \A o \in Obj :
          (pc[o] = "c_join" /\ tgt[o] = o /\ ret[o] = "handler") ~> (pc[o] = "done")
C7_Witness ==
    \E o \in Obj :
        /\ pc[o] = "done"
        /\ IsClosed(o)
        /\ instance = None
        /\ invoked[o] = <<<<"hclose", 1>>>>
        /\ rmtrees[o] = 1

\* C11: a handler that raises does not keep the handlers registered after it for
\* the same event from being invoked: once a line has been dispatched (the reader
\* is back at the head of its loop), every handler registered for each line read
\* so far has been invoked with the line's payload, in registration order.
C11_RaiseSkipsNoHandler ==
    \A o \in Obj : (alloc[o] /\ ~regChanged[o] /\ pc[o] = "loop") =>
        invoked[o] = ExpectedCalls(SubSeq(written[o], 1, Consumed(o)), events)

\* C12: a public registration or clearing call (on, the callback decorator, clear
\* with an event) given a name that starts with the reserved '__' raises the
\* invalid-name error and leaves the registry as it was; the internal listener
\* registrations (add_event_listener, event_listener) succeed and append under a
\* key that starts with '__'.
C12_SentinelRejected ==
    [][/\ (last'.op \in {"on", "callback", "clear"} /\ StartsWith(last'.ev, Sentinel)) =>
            (last'.res = "ValueError" /\ events' = events)
       /\ (last'.op \in {"add_event_listener", "event_listener"}) =>
            /\ last'.res = "ok"
            /\ StartsWith(last'.ev, Sentinel)
            /\ Len(events'[last'.ev]) = Len(events[last'.ev]) + 1]_vars

\* C13: clear(event) empties the handler list of that event and changes no other
\* event's list; clear() leaves no handler for any event, listener keys included.
C13_ClearFrame ==
    [][/\ (last'.op = "clear" /\ last'.res = "ok") =>
            events' = [events EXCEPT ![last'.ev] = <<>>]
       /\ (last'.op = "clear_all") => (\A k \in Events : events'[k] = <<>>)]_vars
C13_Witness ==
    /\ last.op = "clear"
    /\ last.ev = "a"
    /\ events["a"] = <<>>
    /\ events["b"] # <<>>
    /\ \E o \in Obj : cev[o] = "detached" /\ cbs[o] # <<>>

\* C14: an open() made while no session is Open is not rejected as a duplicate.
C14_OpenAcceptedWhenNoneOpen ==
    (last.op = "open" /\ ~last.anyOpen) => last.res # "already_running"

\* C15: a call of a function wrapped by emit_result(event) raises nothing; it
\* appends exactly the frame (event, result) to the outbound stream of the
\* registered session when the result is not None and a session is Open, and
\* leaves every outbound stream unchanged otherwise.
C15_EmitResultWrites ==
    [][last'.op = "emit_result" =>
         /\ last'.res = "ok"
         /\ IF last'.val # None /\ last'.anyOpen
            THEN /\ last'.obj # None
                 /\ outbound' = [outbound EXCEPT ![last'.obj] = Append(@, <<last'.ev, last'.val>>)]
            ELSE outbound' = outbound]_vars

\* C16: when readline() returned end-of-stream, the reader leaves its loop at that
\* iteration: it does not go back to the head of the loop.
C16_EOFStopsReader ==
    [][\A o \in Obj : (pc[o] = "exc" /\ cur[o] = EmptyLine) => pc'[o] # "loop"]_vars

\* the invocations made for one line when a raising handler ends its for loop
CallsUntilRaise(line, reg) ==
    LET c == CallsFor(line, reg)
        r == {i \in 1..Len(c) : c[i][1] = "hraise"}
    IN  IF r = {} THEN c
        ELSE SubSeq(c, 1, CHOOSE i \in r : \A j \in r : i <= j)
RECURSIVE DispatchedCalls(_, _)
DispatchedCalls(lines, reg) ==
    IF lines = <<>> THEN <<>>
    ELSE CallsUntilRaise(Head(lines), reg) \o DispatchedCalls(Tail(lines), reg)

\* C17: an error in one iteration of the reader (a line that fails to decode, a
\* handler that raises) ends the loop only when the process has exited; otherwise
\* the reader goes back to the head of the loop with the unread lines kept, and
\* every line read so far, before or after an error, was dispatched to its
\* handlers up to the one that raised.
C17_ErrorKeepsReader ==
    /\ [](\A o \in Obj : (alloc[o] /\ ~regChanged[o] /\ pc[o] = "loop") =>
            invoked[o] = DispatchedCalls(SubSeq(written[o], 1, Consumed(o)), events))
    /\ [][\A o \in Obj : (pc[o] = "exc" /\ pc'[o] # "exc") =>
            IF nw[o] = "exited" THEN pc'[o] = "after"
            ELSE pc'[o] = "loop" /\ inbound'[o] = inbound[o] /\ active'[o] = active[o]]_vars
C17_Witness ==
    \E o \in Obj :
        /\ pc[o] = "loop"
        /\ IsOpen(o)
        /\ nw[o] = "running"
        /\ raised[o]
        /\ written[o] = <<Garbage, <<"a", 1>>>>
        /\ invoked[o] = <<<<"hraise", 1>>>>
        /\ events["a"] = <<"hraise", "h1">>

\* C18: the teardown of a session is entered by one thread only and its steps are
\* taken once: never two threads inside _close() on the same object, never a
\* second signal to its process or a second removal of its directory.
C18_TeardownOnce ==
    \A o \in Obj :
        /\ Cardinality({t \in Threads : pc[t] \in ClosePcs \ {"c_unreg"} /\ tgt[t] = o}) <= 1
        /\ sig[o] <= 1
        /\ rmtrees[o] <= 1

\* C19: a close() or scope exit that starts the teardown of an Open session
\* eventually leaves the session torn down with its reader ended, whatever the
\* process does with the interrupt signal and however often the host is interrupted.
C19_CloseCompletes ==
    \A o \in Obj :
        (pc[Host] = "c_active" /\ tgt[Host] = o /\ ret[Host] \in {"close", "exit"} /\ IsOpen(o))
            ~> (IsClosed(o) /\ ~ThreadRunning(o))

\* C20: an emit() that got past the test of the active flag writes its frame: its
\* write is never made on an outbound stream that has been closed, neither on the
\* host thread nor in a handler on the reader thread.
C20_NoWriteOnClosedStream ==
    /\ (last.op = "emit" /\ last.entered) => last.res = "ok"
    /\ \A o \in Obj : pc[o] = "h_write" => pipe_out[tgt[o]] = "open"

\* C21: the finalization of a session object leaves NWJS._instance as it was unless
\* the finalized object is the registered one; in particular a newer Open session
\* stays registered when an older, Closed object is finalized.
C21_FinalizeKeepsInstance ==
    [][\A o \in Obj : (alloc[o] /\ ~alloc'[o]) => (instance = o \/ instance' = instance)]_vars

====
